---- MODULE Spec2Model ----
(***************************************************************************)
(* A model of rust_todo_cli (src/main.rs): the process-wide id counter,    *)
(* the TasksModel store, the CliView line reader and the Presenter's       *)
(* interaction loop.  One step of the model is one read of standard input *)
(* together with everything the program does until it blocks on the next   *)
(* read (or ends).                                                         *)
(***************************************************************************)
EXTENDS Integers, Sequences, FiniteSets, TLC

(***************************************************************************)
(* u32 values.  The counter and every id are 32-bit unsigned integers.     *)
(* A value v is kept as the pair <<v \div 2^16, v % 2^16>> so that the     *)
(* whole range 0 .. 2^32-1, and wrap-around at 2^32, are represented       *)
(* exactly.                                                                *)
(***************************************************************************)
Limb == 65536

U32(n) == <<n \div Limb, n % Limb>>

U32_MAX == <<Limb - 1, Limb - 1>>

Lt(x, y) == x[1] < y[1] \/ (x[1] = y[1] /\ x[2] < y[2])

\* AtomicU32::fetch_add(1): addition wraps around on overflow.
wrapping_inc(x) ==
    IF x[2] < Limb - 1 THEN <<x[1], x[2] + 1>>
    ELSE IF x[1] < Limb - 1 THEN <<x[1] + 1, 0>>
    ELSE <<0, 0>>

(***************************************************************************)
(* Text.  A string is a sequence of characters, and a character is a       *)
(* one-character string.  A character that a string of a module cannot     *)
(* hold (any character above U+00FF) is denoted by the name of its code    *)
(* point, as in "U+3000": such a name stands for one character.            *)
(***************************************************************************)
Digits == <<"0", "1", "2", "3", "4", "5", "6", "7", "8", "9">>

IsDigit(c) == \E i \in 1..Len(Digits) : Digits[i] = c

DigitVal(c) == (CHOOSE i \in 1..Len(Digits) : Digits[i] = c) - 1

DigitChar(d) == Digits[d + 1]

\* The characters with the Unicode property White_Space, which str::trim
\* removes.  The first row is U+0009 .. U+000D, U+0020, U+0085 and U+00A0, in
\* this order; U+000B, U+0085 and U+00A0 are written as themselves.
WhiteSpace ==
    { "\t", "\n", "", "\f", "\r", " ", "", " ",
      "U+1680", "U+2000", "U+2001", "U+2002", "U+2003", "U+2004", "U+2005",
      "U+2006", "U+2007", "U+2008", "U+2009", "U+200A", "U+2028", "U+2029",
      "U+202F", "U+205F", "U+3000" }

RECURSIVE trim_start(_)
trim_start(s) ==
    IF s # <<>> /\ Head(s) \in WhiteSpace THEN trim_start(Tail(s)) ELSE s

RECURSIVE trim_end(_)
trim_end(s) ==
    IF s # <<>> /\ s[Len(s)] \in WhiteSpace
    THEN trim_end(SubSeq(s, 1, Len(s) - 1))
    ELSE s

\* str::trim
trim(s) == trim_end(trim_start(s))

Ok(v) == [ok |-> TRUE, val |-> v]

Err(e) == [ok |-> FALSE, err |-> e]

\* One digit of str::parse::<u32>: acc * 10 + d, checked against 2^32.
checked_mul_add(acc, d) ==
    LET lo == acc[2] * 10 + d
        hi == acc[1] * 10 + (lo \div Limb)
    IN  IF hi >= Limb THEN Err("PosOverflow") ELSE Ok(<<hi, lo % Limb>>)

RECURSIVE parse_digits(_, _)
parse_digits(s, acc) ==
    IF s = <<>> THEN Ok(acc)
    ELSE IF ~IsDigit(Head(s)) THEN Err("InvalidDigit")
    ELSE LET r == checked_mul_add(acc, DigitVal(Head(s)))
         IN  IF r.ok THEN parse_digits(Tail(s), r.val) ELSE r

\* str::parse::<u32>: an optional '+', then at least one decimal digit; a
\* '-' is not accepted for an unsigned type.
parse_u32(s) ==
    IF s = <<>> THEN Err("Empty")
    ELSE IF Len(s) = 1 /\ Head(s) \in {"+", "-"} THEN Err("InvalidDigit")
    ELSE IF Head(s) = "+" THEN parse_digits(Tail(s), U32(0))
    ELSE parse_digits(s, U32(0))

\* Result::unwrap_or
unwrap_or(r, d) == IF r.ok THEN r.val ELSE d

RECURSIVE nat_to_string(_)
nat_to_string(n) ==
    IF n < 10 THEN <<DigitChar(n)>>
    ELSE Append(nat_to_string(n \div 10), DigitChar(n % 10))

\* The quotient and the remainder of a u32 divided by ten.
div10(x) ==
    LET t == (x[1] % 10) * Limb + x[2]
    IN  [q |-> <<x[1] \div 10, t \div 10>>, r |-> t % 10]

RECURSIVE u32_to_string(_)
u32_to_string(x) ==
    IF x[1] = 0 /\ x[2] < 10 THEN <<DigitChar(x[2])>>
    ELSE Append(u32_to_string(div10(x).q), DigitChar(div10(x).r))

(***************************************************************************)
(* Bounds of the model and the inputs it enumerates.                       *)
(***************************************************************************)
\* The number of calls of id_generation::next() a run of the model makes.
MaxIssue == 3

\* The execution contexts, besides the program's own thread, that call
\* id_generation::next(), and the number of calls they make together.
NumContexts == 3

MaxContextCalls == 4

\* Lines typed at the menu prompt; <<>> is what read_line leaves at end of
\* input.
MenuLines ==
    { <<"0", "\n">>, <<"1", "\n">>, <<"2", "\n">>, <<"3", "\n">>,
      <<"4", "\n">>, <<"5", "\n">>, <<"6", "\n">>, <<"x", "\n">>,
      <<"-", "1", "\n">>, <<"\f", "1", "\r", "\n">>, <<>> }

\* Lines typed at the title prompt.
TitleLines ==
    { <<"a", "\n">>, <<" ", "b", " ", "c", "\n">>, <<"U+3000", "\n">> }

\* Lines typed at the description prompt; the last one is U+00A0 and a line
\* feed.
DescriptionLines == { <<" ", "0", " ", "\n">>, <<"\n">>, <<" ", "\n">> }

\* Lines typed at the id prompts of delete_task and toggle_status; the second
\* one is U+000B, 2, U+2003 and a line feed.
IdLines ==
    { <<"1", "\n">>, <<"", "2", "U+2003", "\n">>, <<"+", "3", "\n">>,
      <<"9", "9", "9", "9", "\n">>, <<"x", "\n">>,
      <<"4", "2", "9", "4", "9", "6", "7", "2", "9", "6", "\n">>, <<>> }

\* Readings of the system clock, in seconds from the Unix epoch; a negative
\* reading is a clock set before the epoch.
Clock == {-1, 12}

(***************************************************************************)
(* The state.                                                              *)
(***************************************************************************)
VARIABLES
    COUNTER,    \* id_generation::COUNTER
    tasks,      \* Presenter.model.tasks
    pc,         \* where the program stands: the read it blocks on, or its end
    title,      \* add_task's local `title` while the description is awaited
    option,     \* interaction_loop's local `option` of the latest iteration
    input,      \* the outcome of the latest read of standard input
    call,       \* the TasksModel method the latest step called, if any
    out,        \* what the latest step printed, in order
    nread,      \* lines consumed since the latest menu selection
    hist,       \* the latest call of add, delete, toggle or delete_all
    calls,      \* calls of next() made in this run of the model
    lastId,     \* the value the latest call of next() returned
    issued,     \* the ids next() is known to have returned
    ctx         \* for each further execution context that calls next(), the
                \* values its calls returned, in order

vars == <<COUNTER, tasks, pc, title, option, input, call, out, nread, hist,
          calls, lastId, issued, ctx>>

Contexts == 1..NumContexts

NoContextCalls == [t \in Contexts |-> <<>>]

None == [some |-> FALSE]

Some(v) == [some |-> TRUE, val |-> v]

NoCall == [op |-> "none"]

NoHist == [op |-> "none", id |-> U32(0), ok |-> TRUE, before |-> <<>>,
           again |-> FALSE]

\* The entry of `hist` for a call made when the entry was h: `before` is the
\* store the call was made on, and `again` tells that the call before it was
\* the same method with the same id and the same outcome.
Record(h, op, id, ok, before) ==
    [op |-> op, id |-> id, ok |-> ok, before |-> before,
     again |-> (h.op = op /\ h.id = id /\ h.ok = ok)]

(***************************************************************************)
(* id_generation and Task.                                                 *)
(***************************************************************************)
\* id_generation::next: the value returned and the counter left behind.
next(counter) == [val |-> counter, counter |-> wrapping_inc(counter)]

\* Task::new, given the id that next() returned.
Task_new(id, t, d, date, done) ==
    [id |-> id, title |-> t, description |-> d, date |-> date, done |-> done]

(***************************************************************************)
(* TasksModel.                                                             *)
(***************************************************************************)
add(ts, item) == Append(ts, item)

get_all(ts) == ts

\* delete_all that shortens the store to one task instead of clearing it.
delete_all_keeps_first(ts) == IF ts = <<>> THEN <<>> ELSE <<Head(ts)>>

delete_all(ts) == <<>>

\* Iterator::position: the index of the first task with the id, 0 for None.
position(ts, id) ==
    IF \E i \in 1..Len(ts) : ts[i].id = id
    THEN CHOOSE i \in 1..Len(ts) :
            ts[i].id = id /\ \A j \in 1..(i - 1) : ts[j].id # id
    ELSE 0

\* Vec::swap_remove: the last task takes the place of the removed one.
swap_remove(ts, i) ==
    IF i = Len(ts) THEN SubSeq(ts, 1, Len(ts) - 1)
    ELSE [SubSeq(ts, 1, Len(ts) - 1) EXCEPT ![i] = ts[Len(ts)]]

\* Vec::remove
remove(ts, i) == SubSeq(ts, 1, i - 1) \o SubSeq(ts, i + 1, Len(ts))

not_found(id) == <<"Task with id ">> \o u32_to_string(id) \o <<" not found.">>

\* delete that removes the first task when no task has the id.
delete_first_if_absent(ts, id) ==
    LET i == position(ts, id)
    IN  IF i # 0 \/ ts # <<>>
        THEN [tasks |-> remove(ts, IF i # 0 THEN i ELSE 1), res |-> Ok(<<>>)]
        ELSE [tasks |-> ts, res |-> Err(not_found(id))]

\* delete that removes the last task with the id instead of the first.
delete_last_match(ts, id) ==
    IF \E i \in 1..Len(ts) : ts[i].id = id
    THEN [tasks |-> remove(ts, CHOOSE i \in 1..Len(ts) :
                              ts[i].id = id
                                  /\ \A j \in (i + 1)..Len(ts) : ts[j].id # id),
          res |-> Ok(<<>>)]
    ELSE [tasks |-> ts, res |-> Err(not_found(id))]

delete(ts, id) ==
    LET i == position(ts, id)
    IN  IF i # 0
        THEN [tasks |-> remove(ts, i), res |-> Ok(<<>>)]
        ELSE [tasks |-> ts, res |-> Err(not_found(id))]

\* toggle that sets the flag instead of flipping it.
toggle_sets_done(ts, id) ==
    LET i == position(ts, id)
    IN  IF i # 0
        THEN [tasks |-> [ts EXCEPT ![i].done = TRUE], res |-> Ok(<<>>)]
        ELSE [tasks |-> ts, res |-> Err(not_found(id))]

\* toggle that flips the flag of every task when one has the id.
toggle_flips_all(ts, id) ==
    IF position(ts, id) # 0
    THEN [tasks |-> [i \in 1..Len(ts) |-> [ts[i] EXCEPT !.done = ~ts[i].done]],
          res |-> Ok(<<>>)]
    ELSE [tasks |-> ts, res |-> Err(not_found(id))]

\* toggle that flips the first task's flag when no task has the id.
toggle_first_if_absent(ts, id) ==
    LET i == position(ts, id)
        k == IF i # 0 THEN i ELSE 1
    IN  IF ts # <<>>
        THEN [tasks |-> [ts EXCEPT ![k].done = ~ts[k].done], res |-> Ok(<<>>)]
        ELSE [tasks |-> ts, res |-> Err(not_found(id))]

toggle(ts, id) ==
    LET i == position(ts, id)
    IN  IF i # 0
        THEN [tasks |-> [ts EXCEPT ![i].done = ~ts[i].done], res |-> Ok(<<>>)]
        ELSE [tasks |-> ts, res |-> Err(not_found(id))]

(***************************************************************************)
(* CliView.                                                                *)
(***************************************************************************)
show_menu == <<<<"MENU">>>>

Separator == <<"******************************************">>

\* The width of the description field in display_tasks ({:<40}).
DescriptionWidth == 40

\* format!("{:<n}", s): s followed by spaces up to n characters.
pad_right(s, n) == s \o [i \in 1..(n - Len(s)) |-> " "]

\* One task's block of display_tasks.  The marks before the status are
\* U+2713 and U+2717; U+1F4DD stands before the description and U+1F4C5
\* before the date.
display_task(task) ==
    LET status == IF task.done THEN <<"U+2713", " Done">>
                               ELSE <<"U+2717", " Not done">>
        description ==
            IF trim(task.description) # <<>>
            THEN <<" ", "U+1F4DD", " ">>
                    \o pad_right(trim(task.description), DescriptionWidth)
                    \o <<"\n">>
            ELSE <<>>
    IN  << <<"id: ">> \o u32_to_string(task.id) \o <<" | status: ">> \o status
              \o <<" | title: ">> \o trim(task.title) \o <<"\n">>
              \o description \o <<" ", "U+1F4C5", " ">> \o task.date
              \o <<"\n">>,
           Separator >>

RECURSIVE display_each(_)
display_each(ts) ==
    IF ts = <<>> THEN <<>> ELSE display_task(Head(ts)) \o display_each(Tail(ts))

display_tasks(ts) ==
    IF ts = <<>> THEN <<<<"Todo list is empty.">>>>
    ELSE <<<<"Your tasks">>, Separator>> \o display_each(ts)

\* What get_user_input returns for a line that was read.
get_user_input(l) == trim(l)

\* The top of the next iteration of interaction_loop: the menu and its prompt.
menu_prompt == show_menu \o <<<<"Select an option:">>>>

(***************************************************************************)
(* Presenter.  Each action reads one line at the prompt the program is     *)
(* blocked on and runs the program up to its next read.                    *)
(***************************************************************************)
Prompts == {"menu", "add_title", "add_description", "delete_id", "toggle_id"}

\* match_option without the arm `0 => break`.
match_option_no_break(opt) ==
    CASE opt = U32(1) -> "show_tasks"
      [] opt = U32(2) -> "add_task"
      [] opt = U32(3) -> "delete_task"
      [] opt = U32(4) -> "toggle_status"
      [] opt = U32(5) -> "delete_tasks"
      [] OTHER -> "invalid"

\* match_option whose last arm leaves the loop.
match_option_other_breaks(opt) ==
    CASE opt = U32(1) -> "show_tasks"
      [] opt = U32(2) -> "add_task"
      [] opt = U32(3) -> "delete_task"
      [] opt = U32(4) -> "toggle_status"
      [] opt = U32(5) -> "delete_tasks"
      [] OTHER -> "break"

\* The arm of interaction_loop's match that an option value selects.
match_option(opt) ==
    CASE opt = U32(1) -> "show_tasks"
      [] opt = U32(2) -> "add_task"
      [] opt = U32(3) -> "delete_task"
      [] opt = U32(4) -> "toggle_status"
      [] opt = U32(5) -> "delete_tasks"
      [] opt = U32(0) -> "break"
      [] OTHER -> "invalid"

\* interaction_loop: one iteration, from the read of the menu line to the
\* next read.
interaction_loop(l) ==
    LET opt == unwrap_or(parse_u32(get_user_input(l)), U32(0))
        arm == match_option(opt)
    IN  /\ pc = "menu"
        /\ UNCHANGED ctx
        /\ input' = Some(l)
        /\ option' = Some(opt)
        /\ nread' = 0
        /\ UNCHANGED <<COUNTER, title, calls, lastId, issued>>
        /\ CASE arm = "show_tasks" ->
                  /\ out' = display_tasks(get_all(tasks)) \o menu_prompt
                  /\ call' = [op |-> "get_all"]
                  /\ pc' = "menu"
                  /\ UNCHANGED <<tasks, hist>>
             [] arm = "add_task" ->       \* up to its first read
                  /\ out' = <<<<"Enter task title:">>>>
                  /\ call' = NoCall
                  /\ pc' = "add_title"
                  /\ UNCHANGED <<tasks, hist>>
             [] arm = "delete_task" ->    \* up to its read
                  /\ out' = <<<<"Enter task id to delete:">>>>
                  /\ call' = NoCall
                  /\ pc' = "delete_id"
                  /\ UNCHANGED <<tasks, hist>>
             [] arm = "toggle_status" ->  \* up to its read
                  /\ out' = display_tasks(get_all(tasks))
                               \o <<<<"Enter task id to toggle:">>>>
                  /\ call' = [op |-> "get_all"]
                  /\ pc' = "toggle_id"
                  /\ UNCHANGED <<tasks, hist>>
             [] arm = "delete_tasks" ->
                  /\ tasks' = delete_all(tasks)
                  /\ hist' = Record(hist, "delete_all", U32(0), TRUE, tasks)
                  /\ call' = [op |-> "delete_all"]
                  /\ out' = menu_prompt
                  /\ pc' = "menu"
             [] arm = "break" ->          \* main returns
                  /\ out' = <<>>
                  /\ call' = NoCall
                  /\ pc' = "exited"
                  /\ UNCHANGED <<tasks, hist>>
             [] OTHER ->
                  /\ out' = <<<<"Invalid option">>>> \o menu_prompt
                  /\ call' = NoCall
                  /\ pc' = "menu"
                  /\ UNCHANGED <<tasks, hist>>

\* add_task that returns as soon as the title is found empty, before the
\* description is asked for.
add_task_title_returns_if_empty(l) ==
    /\ pc = "add_title"
    /\ UNCHANGED ctx
    /\ input' = Some(l)
    /\ nread' = nread + 1
    /\ title' = get_user_input(l)
    /\ out' = IF title' = <<>> THEN menu_prompt
              ELSE <<<<"Enter task description:">>>>
    /\ call' = NoCall
    /\ pc' = IF title' = <<>> THEN "menu" ELSE "add_description"
    /\ UNCHANGED <<COUNTER, tasks, option, hist, calls, lastId, issued>>

\* add_task: the read of the title.
add_task_title(l) ==
    /\ pc = "add_title"
    /\ UNCHANGED ctx
    /\ input' = Some(l)
    /\ nread' = nread + 1
    /\ title' = get_user_input(l)
    /\ out' = <<<<"Enter task description:">>>>
    /\ call' = NoCall
    /\ pc' = "add_description"
    /\ UNCHANGED <<COUNTER, tasks, option, hist, calls, lastId, issued>>

\* add_task's test with `&&` in place of `||`.
add_task_aborts_if_both(t, d) == t = <<>> /\ d = <<>>

\* add_task's test of the two texts: true when the function returns early.
add_task_aborts(t, d) == t = <<>> \/ d = <<>>

\* add_task: the read of the description and the rest of the function, with
\* the clock reading `now`.
add_task_description(l, now) ==
    LET description == get_user_input(l)
        id == next(COUNTER)
        task == Task_new(id.val, title, description, nat_to_string(now), FALSE)
    IN  /\ pc = "add_description"
        /\ UNCHANGED ctx
        /\ input' = Some(l)
        /\ nread' = nread + 1
        /\ title' = <<>>
        /\ UNCHANGED option
        /\ IF add_task_aborts(title, description)
           THEN /\ out' = menu_prompt
                /\ call' = NoCall
                /\ pc' = "menu"
                /\ UNCHANGED <<COUNTER, tasks, hist, calls, lastId, issued>>
           ELSE IF now < 0
           THEN \* duration_since(UNIX_EPOCH) is an Err: expect panics
                /\ out' = <<<<"System time">>>>
                /\ call' = NoCall
                /\ pc' = "panicked"
                /\ UNCHANGED <<COUNTER, tasks, hist, calls, lastId, issued>>
           ELSE /\ calls < MaxIssue
                /\ COUNTER' = id.counter
                /\ calls' = calls + 1
                /\ lastId' = Some(id.val)
                /\ issued' = issued \cup {id.val}
                /\ tasks' = add(tasks, task)
                /\ hist' = Record(hist, "add", id.val, TRUE, tasks)
                /\ call' = [op |-> "add", task |-> task]
                /\ out' = menu_prompt
                /\ pc' = "menu"

\* report that prints nothing.
report_nothing(res) == <<>>

\* `.err().map(|e| println!("{}", e))`: what is printed for the Result of
\* delete or toggle.
report(res) == IF res.ok THEN <<>> ELSE <<res.err>>

\* delete_task after its read: `id` is input.parse::<u32>(), and the closure
\* given to and_then runs when it is Ok.
delete_task_parsed(l, id) ==
    LET r == delete(tasks, id.val)
    IN  /\ pc = "delete_id"
        /\ UNCHANGED ctx
        /\ input' = Some(l)
        /\ nread' = nread + 1
        /\ pc' = "menu"
        /\ UNCHANGED <<COUNTER, title, option, calls, lastId, issued>>
        /\ IF id.ok
           THEN /\ tasks' = r.tasks
                /\ hist' = Record(hist, "delete", id.val, r.res.ok, tasks)
                /\ call' = [op |-> "delete", id |-> id.val, res |-> r.res]
                /\ out' = report(r.res) \o menu_prompt
           ELSE /\ call' = NoCall
                /\ out' = menu_prompt
                /\ UNCHANGED <<tasks, hist>>

\* delete_task with unwrap_or(0) in place of ok().and_then.
delete_task_defaulting(l) ==
    delete_task_parsed(l, Ok(unwrap_or(parse_u32(get_user_input(l)), U32(0))))

\* delete_task: the read of the id and the rest of the function.
delete_task(l) == delete_task_parsed(l, parse_u32(get_user_input(l)))

\* toggle_status after its read, as delete_task_parsed.
toggle_status_parsed(l, id) ==
    LET r == toggle(tasks, id.val)
    IN  /\ pc = "toggle_id"
        /\ UNCHANGED ctx
        /\ input' = Some(l)
        /\ nread' = nread + 1
        /\ pc' = "menu"
        /\ UNCHANGED <<COUNTER, title, option, calls, lastId, issued>>
        /\ IF id.ok
           THEN /\ tasks' = r.tasks
                /\ hist' = Record(hist, "toggle", id.val, r.res.ok, tasks)
                /\ call' = [op |-> "toggle", id |-> id.val, res |-> r.res]
                /\ out' = report(r.res) \o menu_prompt
           ELSE /\ call' = NoCall
                /\ out' = menu_prompt
                /\ UNCHANGED <<tasks, hist>>

\* toggle_status: the read of the id and the rest of the function.
toggle_status(l) == toggle_status_parsed(l, parse_u32(get_user_input(l)))

\* get_user_input when read_line returns an Err: expect panics.
read_failure ==
    /\ pc \in Prompts
    /\ UNCHANGED ctx
    /\ input' = [some |-> FALSE, failed |-> TRUE]
    /\ out' = <<<<"Failed to read.">>>>
    /\ call' = NoCall
    /\ pc' = "panicked"
    /\ UNCHANGED <<COUNTER, tasks, title, option, nread, hist, calls, lastId,
                   issued>>

(***************************************************************************)
(* The program from its start: main builds an empty TasksModel and enters  *)
(* interaction_loop, which shows the menu and blocks on the first read.    *)
(***************************************************************************)
Init ==
    /\ COUNTER = U32(1)
    /\ tasks = <<>>
    /\ pc = "menu"
    /\ title = <<>>
    /\ option = None
    /\ input = None
    /\ call = NoCall
    /\ out = menu_prompt
    /\ nread = 0
    /\ hist = NoHist
    /\ calls = 0
    /\ lastId = None
    /\ issued = {}
    /\ ctx = NoContextCalls

Next ==
    \/ \E l \in MenuLines : interaction_loop(l)
    \/ \E l \in TitleLines : add_task_title(l)
    \/ \E l \in DescriptionLines, now \in Clock : add_task_description(l, now)
    \/ \E l \in IdLines : delete_task(l)
    \/ \E l \in IdLines : toggle_status(l)
    \/ read_failure

Spec == Init /\ [][Next]_vars

(***************************************************************************)
(* The program late in a long run, just before the counter reaches 2^32.   *)
(* The state is the one reached from Init by adding a task (id 1) and then *)
(* 4294967293 times adding a task and deleting it again by its id, the     *)
(* last of them the task with id 4294967294: the counter stands at         *)
(* 4294967295 and the first task is still in the store.                    *)
(***************************************************************************)
FirstTask == Task_new(U32(1), <<"a">>, <<"0">>, <<"1", "2">>, FALSE)

LatestId == <<Limb - 1, Limb - 2>>

LatestTask == Task_new(LatestId, <<"a">>, <<"0">>, <<"1", "2">>, FALSE)

LatestLine == <<"4", "2", "9", "4", "9", "6", "7", "2", "9", "4", "\n">>

InitWrap ==
    /\ COUNTER = U32_MAX
    /\ tasks = <<FirstTask>>
    /\ pc = "menu"
    /\ title = <<>>
    /\ option = Some(U32(3))
    /\ input = Some(LatestLine)
    /\ call = [op |-> "delete", id |-> LatestId, res |-> Ok(<<>>)]
    /\ out = menu_prompt
    /\ nread = 1
    /\ hist = [op |-> "delete", id |-> LatestId, ok |-> TRUE,
               before |-> <<FirstTask, LatestTask>>, again |-> FALSE]
    /\ calls = 0
    /\ lastId = Some(LatestId)
    /\ issued = {U32(1), LatestId}
    /\ ctx = NoContextCalls

SpecWrap == InitWrap /\ [][Next]_vars

(***************************************************************************)
(* id_generation::next() called from several execution contexts.  A call   *)
(* is the single atomic step fetch_add; the contexts' calls interleave in  *)
(* any order.                                                              *)
(***************************************************************************)
\* A call of next() by context t: fetch_add is one atomic read-modify-write
\* of COUNTER.
context_next(t) ==
    LET id == next(COUNTER)
    IN  /\ calls < MaxContextCalls
        /\ COUNTER' = id.counter
        /\ ctx' = [ctx EXCEPT ![t] = Append(@, id.val)]
        /\ calls' = calls + 1
        /\ lastId' = Some(id.val)
        /\ issued' = issued \cup {id.val}
        /\ UNCHANGED <<tasks, pc, title, option, input, call, out, nread, hist>>

NextContexts == \E t \in Contexts : context_next(t)

\* The contexts from the start of the process.
SpecContexts == Init /\ [][NextContexts]_vars

\* The contexts after 4294967294 calls of next(), the first of which returned
\* 1 and the latest 4294967294.
SpecContextsWrap == InitWrap /\ [][NextContexts]_vars

(***************************************************************************)
(* Properties.                                                             *)
(***************************************************************************)
\* The latest step read a line at the menu prompt.
MenuRead == input.some /\ nread = 0

\* The ids of the tasks in the store are pairwise different.
UniqueIds ==
    \A i, j \in 1..Len(tasks) : tasks[i].id = tasks[j].id => i = j

\* C1: a menu line that does not parse as an unsigned integer takes the
\* invalid-option branch and the menu is shown again; the loop ends only
\* when the menu line parsed, and parsed to 0.
C1_UnparsedMenuLineIsInvalidOption ==
    MenuRead =>
        LET r == parse_u32(trim(input.val))
        IN  /\ ~r.ok => pc = "menu" /\ out = <<<<"Invalid option">>>> \o menu_prompt
            /\ pc = "exited" => r.ok /\ r.val = U32(0)

\* C2: in every state the tasks of the store have pairwise different ids,
\* and the id given to a new task was never given to a task before.
C2_IdsUniqueAndNeverReused ==
    [][UniqueIds' /\ (call'.op = "add" => call'.task.id \notin issued)]_vars

\* C3: every call of next() returns a value greater than the call before it
\* did, and the first call returns 1.
C3_NextStrictlyIncreasingFromOne ==
    [][calls' # calls =>
          IF lastId.some THEN Lt(lastId.val, lastId'.val)
          ELSE lastId'.val = U32(1)]_vars

\* C4: add_task with a title and a description that are not empty after
\* trimming makes the store one task longer, and the new task's id is none
\* of the ids issued before.
C4_AddTaskAddsOneFreshTask ==
    [][(pc = "add_description" /\ input'.some
           /\ title # <<>> /\ trim(input'.val) # <<>>) =>
          /\ Len(tasks') = Len(tasks) + 1
          /\ tasks'[Len(tasks')].id \notin issued]_vars

\* No task of the store ts has the id.
Absent(ts, id) == \A i \in 1..Len(ts) : ts[i].id # id

\* The text e is the NotFound message that names the id.
IsNotFound(e, id) ==
    /\ Len(e) >= 3
    /\ e[1] = "Task with id "
    /\ e[Len(e)] = " not found."
    /\ parse_u32(SubSeq(e, 2, Len(e) - 1)) = Ok(id)

\* C5: delete(id) on a store with no task of that id returns the NotFound
\* error for the id and leaves the store as it was.
C5_DeleteAbsentIdIsNotFound ==
    (call.op = "delete" /\ Absent(hist.before, call.id)) =>
        /\ ~call.res.ok
        /\ IsNotFound(call.res.err, call.id)
        /\ tasks = hist.before

C5_Witness ==
    /\ call.op = "delete"
    /\ call.id = U32(9999)
    /\ ~call.res.ok
    /\ Len(tasks) >= 2

\* C6: a successful toggle(id) flips the done flag of the task, and when the
\* call before it was a successful toggle(id) too, the store is again what
\* it was before that first call.
C6_ToggleTwiceRestoresStore ==
    [][(pc = "toggle_id" /\ call'.op = "toggle" /\ call'.res.ok) =>
          /\ \E i \in 1..Len(tasks) :
                /\ tasks[i].id = call'.id
                /\ Len(tasks') = Len(tasks)
                /\ tasks'[i].done = ~tasks[i].done
          /\ (hist.op = "toggle" /\ hist.ok /\ hist.id = call'.id) =>
                tasks' = hist.before]_vars

C6_Witness ==
    /\ call.op = "toggle"
    /\ call.res.ok
    /\ hist.op = "toggle"
    /\ hist.ok
    /\ hist.again
    /\ Len(tasks) >= 2
    /\ tasks # hist.before

\* C7: delete_all leaves the store empty, whatever it held (nothing changes
\* when it held nothing), and menu option 5 calls it and is back at the menu
\* prompt without another read.
C7_DeleteAllEmptiesStore ==
    /\ call.op = "delete_all" =>
          /\ get_all(tasks) = <<>>
          /\ hist.before = <<>> => tasks = hist.before
    /\ (MenuRead /\ option = Some(U32(5))) =>
          call.op = "delete_all" /\ pc = "menu" /\ out = menu_prompt

C7_Witness ==
    /\ call.op = "delete_all"
    /\ Len(hist.before) >= 2
    /\ MenuRead
    /\ tasks = <<>>

\* C8: when the title or the description entered in add_task is empty after
\* trimming, no task is made, the store stays as it is and the program is
\* back at the menu prompt.
C8_EmptyTextAbortsAdd ==
    [][(pc = "add_description" /\ input'.some
           /\ (title = <<>> \/ trim(input'.val) = <<>>)) =>
          /\ tasks' = tasks
          /\ COUNTER' = COUNTER
          /\ call' = NoCall
          /\ pc' = "menu"]_vars

C8_Witness ==
    /\ pc = "menu"
    /\ option = Some(U32(2))
    /\ nread = 2
    /\ input.some
    /\ trim(input.val) = <<>>
    /\ call = NoCall
    /\ tasks # <<>>

\* C9: an id line of delete_task or toggle_status that does not parse as an
\* unsigned integer leads to no call of delete or toggle: the store stays as
\* it is, nothing but the next menu is printed and the program is back at
\* the menu prompt.
C9_UnparsedIdDoesNothing ==
    [][(pc \in {"delete_id", "toggle_id"} /\ input'.some
           /\ ~parse_u32(trim(input'.val)).ok) =>
          /\ tasks' = tasks
          /\ hist' = hist
          /\ call' = NoCall
          /\ out' = menu_prompt
          /\ pc' = "menu"]_vars

C9_Witness ==
    /\ pc = "menu"
    /\ option.some
    /\ option.val \in {U32(3), U32(4)}
    /\ nread = 1
    /\ input.some
    /\ ~parse_u32(trim(input.val)).ok
    /\ call = NoCall
    /\ tasks # <<>>

\* The step reads a menu line that parses to the option n.
Selects(n) ==
    /\ pc = "menu"
    /\ input'.some
    /\ parse_u32(trim(input'.val)) = Ok(U32(n))

\* What C10 says of a menu line: 0 ends the loop with no call on the store,
\* 1 and 5 are done by the next menu prompt, 2, 3 and 4 go to their prompt.
MenuLineDispatch ==
    /\ Selects(0) => pc' = "exited" /\ call' = NoCall /\ tasks' = tasks
    /\ Selects(1) \/ Selects(5) => pc' = "menu"
    /\ Selects(2) => pc' = "add_title"
    /\ Selects(3) => pc' = "delete_id"
    /\ Selects(4) => pc' = "toggle_id"
    /\ pc # "exited"
    /\ nread' <= 2

\* C10 as claimed: a menu line that parses to 0 ends the loop with no store
\* operation and no further read; each of the options 1 to 5 is back at the
\* menu prompt after at most two further prompts.
C10_OptionsReturnToMenu ==
    [][/\ MenuLineDispatch
       /\ pc = "add_title" => pc' = "add_description"
       /\ pc \in {"add_description", "delete_id", "toggle_id"} =>
             pc' = "menu"]_vars

\* C10 as amended: as above, but an option's prompt may also end the process
\* abnormally (its read fails, or add_task cannot take the time).
C10_OptionsReturnToMenuOrPanic ==
    [][/\ MenuLineDispatch
       /\ pc = "add_title" => pc' \in {"add_description", "panicked"}
       /\ pc \in {"add_description", "delete_id", "toggle_id"} =>
             pc' \in {"menu", "panicked"}]_vars

C10_Witness ==
    /\ pc = "exited"
    /\ input = Some(<<"0", "\n">>)
    /\ call = NoCall
    /\ Len(tasks) >= 2

\* What `input` holds after a read that failed.
ReadFailed == [some |-> FALSE, failed |-> TRUE]

\* C11: the program ends abnormally only at a prompt whose read failed; no
\* other step of an operation, the taking of the creation time in add_task
\* included, aborts it.
C11_PanicOnlyOnReadFailure ==
    pc = "panicked" => input = ReadFailed /\ out = <<<<"Failed to read.">>>>

\* The values the contexts' calls returned, as a set of <<context, index>>.
ContextCalls == {<<t, i>> \in Contexts \X (1..MaxContextCalls) : i <= Len(ctx[t])}

\* C12: with next() called from several contexts in any interleaving, no
\* two calls return the same value, and the calls made so far returned
\* every value from 1 to their number.
C12_ContextsGetDistinctIds ==
    [][\A t \in Contexts :
          ctx'[t] # ctx[t] =>
              LET v == ctx'[t][Len(ctx'[t])]
              IN  /\ v \notin issued
                  /\ \A c \in ContextCalls : ctx[c[1]][c[2]] # v
                  /\ IF lastId.some
                     THEN Lt(lastId.val, v) /\ v = wrapping_inc(lastId.val)
                     ELSE v = U32(1)]_vars

\* C13: delete(id) on a store that holds a task with the id succeeds and
\* removes one task, the first with the id; the other tasks stay, each as
\* it was and in the same order, so the store is one task shorter.
C13_DeleteRemovesFirstMatch ==
    (call.op = "delete" /\ ~Absent(hist.before, call.id)) =>
        /\ call.res.ok
        /\ Len(tasks) = Len(hist.before) - 1
        /\ \E i \in 1..Len(hist.before) :
              /\ hist.before[i].id = call.id
              /\ \A j \in 1..(i - 1) : hist.before[j].id # call.id
              /\ \A k \in 1..Len(tasks) :
                    tasks[k] = hist.before[IF k < i THEN k ELSE k + 1]

C13_Witness ==
    /\ call.op = "delete"
    /\ call.res.ok
    /\ Len(hist.before) >= 3
    /\ \E i, j \in 1..Len(hist.before) :
          /\ i < j
          /\ hist.before[i].id = call.id
          /\ hist.before[j].id = call.id
    /\ \E k \in 1..Len(tasks) : tasks[k].id = call.id

\* The task t without its done flag.
Fixed(t) ==
    [id |-> t.id, title |-> t.title, description |-> t.description,
     date |-> t.date]

\* C14: as long as a task is in the store its id, title, description and
\* date stay as they were; its done flag is false when it is added and
\* changes only in a successful toggle called with the task's own id.
C14_TaskChangesOnlyByOwnToggle ==
    [][/\ \A i \in 1..Len(tasks), j \in 1..Len(tasks') :
             tasks[i].id = tasks'[j].id =>
                /\ Fixed(tasks'[j]) = Fixed(tasks[i])
                /\ tasks'[j].done # tasks[i].done =>
                      /\ pc = "toggle_id"
                      /\ call' = [op |-> "toggle", id |-> tasks[i].id,
                                  res |-> Ok(<<>>)]
       /\ \A j \in 1..Len(tasks') :
             Absent(tasks, tasks'[j].id) => ~tasks'[j].done]_vars

C14_Witness ==
    /\ call.op = "toggle"
    /\ call.res.ok
    /\ Len(tasks) >= 3
    /\ \E i, j \in 1..Len(tasks) : tasks[i].done /\ ~tasks[j].done
    /\ \E i \in 1..Len(tasks) : tasks[i].title # tasks[1].title

\* C15: toggle(id) on a store with no task of that id returns the NotFound
\* error for the id, flips no flag and leaves the store as it was.
C15_ToggleAbsentIdIsNotFound ==
    (call.op = "toggle" /\ Absent(hist.before, call.id)) =>
        /\ ~call.res.ok
        /\ IsNotFound(call.res.err, call.id)
        /\ tasks = hist.before

C15_Witness ==
    /\ call.op = "toggle"
    /\ call.id = U32(9999)
    /\ ~call.res.ok
    /\ Len(tasks) >= 2
    /\ \E i, j \in 1..Len(tasks) : tasks[i].done /\ ~tasks[j].done

\* C16: an id given to delete_task or toggle_status that parses but is the
\* id of no task gets the NotFound error printed, and the program goes on:
\* the store stays as it is and the next read is the menu prompt's.
C16_AbsentIdIsReportedAndLoopGoesOn ==
    [][(pc \in {"delete_id", "toggle_id"} /\ input'.some
           /\ parse_u32(trim(input'.val)).ok
           /\ Absent(tasks, parse_u32(trim(input'.val)).val)) =>
          /\ Len(out') = 1 + Len(menu_prompt)
          /\ IsNotFound(out'[1], parse_u32(trim(input'.val)).val)
          /\ SubSeq(out', 2, Len(out')) = menu_prompt
          /\ pc' = "menu"
          /\ tasks' = tasks]_vars

C16_Witness ==
    /\ pc = "menu"
    /\ option = Some(U32(4))
    /\ nread = 1
    /\ call.op = "toggle"
    /\ ~call.res.ok
    /\ out[1] = call.res.err
    /\ tasks # <<>>

\* The tasks of the store ts without their done flags.
Keys(ts) == [i \in 1..Len(ts) |-> Fixed(ts[i])]

\* The sequence a is b with some of its elements left out.
RECURSIVE IsSubseq(_, _)
IsSubseq(a, b) ==
    IF a = <<>> THEN TRUE
    ELSE IF b = <<>> THEN FALSE
    ELSE IF Head(a) = Head(b) THEN IsSubseq(Tail(a), Tail(b))
    ELSE IsSubseq(a, Tail(b))

\* The store lists the tasks in the order of their creation (of their ids,
\* while the counter has not wrapped).
OrderedByCreation ==
    \A i, j \in 1..Len(tasks) : i < j => Lt(tasks[i].id, tasks[j].id)

\* C17: get_all returns the live tasks in the order they were added in: add
\* puts the new task after all others, and no other step changes the order
\* of the tasks that stay.
C17_StoreKeepsInsertionOrder ==
    /\ [](OrderedByCreation /\ get_all(tasks) = tasks)
    /\ [][IF call'.op = "add"
          THEN tasks' = tasks \o <<call'.task>>
          ELSE IsSubseq(Keys(tasks'), Keys(tasks))]_vars

C17_Witness ==
    /\ call.op = "delete"
    /\ call.res.ok
    /\ Len(hist.before) = 3
    /\ hist.before[1].id = call.id
    /\ tasks[1].done

\* C18: a menu line that parses to an unsigned integer other than 0 to 5
\* prints "Invalid option" and leads back to the menu prompt, with no other
\* read and no change of the store.
C18_OtherOptionIsInvalid ==
    [][(pc = "menu" /\ input'.some
           /\ parse_u32(trim(input'.val)).ok
           /\ \A n \in 0..5 : parse_u32(trim(input'.val)).val # U32(n)) =>
          /\ out' = <<<<"Invalid option">>>> \o menu_prompt
          /\ pc' = "menu"
          /\ nread' = 0
          /\ call' = NoCall
          /\ tasks' = tasks
          /\ hist' = hist
          /\ COUNTER' = COUNTER]_vars

C18_Witness ==
    /\ MenuRead
    /\ input = Some(<<"6", "\n">>)
    /\ pc = "menu"
    /\ out[1] = <<"Invalid option">>
    /\ Len(tasks) >= 2

\* The number of lines an operation reads after the menu line that chose it.
LinesOf(opt) ==
    CASE opt = U32(2) -> 2
      [] opt \in {U32(3), U32(4)} -> 1
      [] OTHER -> 0

\* C19: after the menu line add_task reads two lines, whatever they hold,
\* delete_task and toggle_status one, the other options none; the line after
\* an empty title is read as the description, not as a menu line.
C19_LinesReadPerOperation ==
    /\ [](/\ (pc = "menu" /\ option.some) => nread = LinesOf(option.val)
          /\ pc = "add_title" => nread = 0 /\ option = Some(U32(2))
          /\ pc = "add_description" => nread = 1 /\ option = Some(U32(2))
          /\ pc = "delete_id" => nread = 0 /\ option = Some(U32(3))
          /\ pc = "toggle_id" => nread = 0 /\ option = Some(U32(4)))
    /\ [][/\ (pc = "add_title" /\ input'.some) =>
                pc' = "add_description" /\ title' = trim(input'.val)
          /\ (pc = "add_description" /\ input'.some) =>
                option' = option /\ pc' \in {"menu", "panicked"}]_vars

C19_Witness ==
    /\ pc = "menu"
    /\ option = Some(U32(2))
    /\ nread = 2
    /\ input = Some(<<" ", "0", " ", "\n">>)
    /\ call = NoCall
    /\ out = menu_prompt
    /\ tasks # <<>>

====
